---- MODULE Spec2Model ----
(***************************************************************************)
(* A model of trio/_core/_multierror.py: the MultiError tree, its smart    *)
(* constructor, MultiError.filter (filter_tree + push_tb_down + concat_tb), *)
(* the MultiError.catch context manager and format_exception_multi.        *)
(*                                                                         *)
(* Objects are identified by their position in the heap (Python identity). *)
(* A traceback is the sequence of its frames, None being the empty one.    *)
(***************************************************************************)
EXTENDS Integers, Sequences, FiniteSets, TLC

\* Largest number of nodes of an error tree handed to filter / catch.
MaxNodes == 5

\* Largest number of nodes of an error tree handed to format_exception_multi.
MaxFormatNodes == 4

\* Python's None, as an object reference (object ids start at 1).
None == 0

\* The traceback entry that `raise filtered_exc` adds for __exit__'s frame.
ExitFrame == 0

VARIABLES
    heap,         \* the objects: kind, exceptions, tb, cause, context, suppress
    root,         \* the error tree's root object
    pc,           \* "start" before the operation, "done" after it
    op,           \* the operation that ran: "filter", "exit", "new" or "none"
    handler,      \* the handler passed to filter / catch
    orig,         \* the heap when the operation was called
    exc,          \* the error __exit__ received (None on normal exit)
    arg,          \* the sequence MultiError(...) was constructed from
    ret,          \* what MultiError.filter / MultiError(...) returned
    exit,         \* how __exit__ ended: "return False", "return True", "raise"
    preserved,    \* _filter_impl's preserved set when it returned
    calls,        \* the leaves the handler was called with, in order
    propagating,  \* the error propagating out of the with block after __exit__
    chain,        \* format_exception_multi's chain argument
    seen,         \* format_exception_multi's seen set
    stack,        \* the active calls of _format_exception_multi, innermost last
    chunks,       \* the chunks emitted so far, in output order
    entered       \* how many times _format_exception_multi was called per object

opvars == <<op, handler, orig, exc, arg, ret, exit, preserved, calls,
            propagating>>
fmtvars == <<chain, seen, stack, chunks, entered>>
vars == <<heap, root, pc, opvars, fmtvars>>

Range(s) == {s[i] : i \in 1..Len(s)}

----------------------------------------------------------------------------
(* Objects *)

\* A heap with one more object; its id is the new length of the heap.
NewObject(H, k, excs, cause, context, suppress) ==
    [kind      |-> Append(H.kind, k),
     exceptions |-> Append(H.exceptions, excs),
     tb        |-> Append(H.tb, <<>>),
     cause     |-> Append(H.cause, cause),
     context   |-> Append(H.context, context),
     suppress  |-> Append(H.suppress, suppress)]

\* isinstance(exc, MultiError)
IsMultiError(H, e) == H.kind[e] = "MultiError"

\* MultiErrorNew without the len(exceptions) == 1 case.
MultiErrorNew_NoCollapse(H, exceptions) ==
    LET H2 == NewObject(H, "MultiError", exceptions, None, None, FALSE)
    IN  [heap |-> H2, res |-> Len(H2.kind)]

\* MultiError.__new__(cls, exceptions): the heap after the call and the object
\* it returns.
MultiErrorNew(H, exceptions) ==
    IF Len(exceptions) = 1
    THEN [heap |-> H, res |-> exceptions[1]]
    ELSE LET H2 == NewObject(H, "MultiError", exceptions, None, None, FALSE)
         IN  [heap |-> H2, res |-> Len(H2.kind)]

----------------------------------------------------------------------------
(* concat_tb *)

\* copy_tb(base_tb, tb_next): a new entry with base_tb's frame, then tb_next.
copy_tb(base_tb, tb_next) == <<base_tb>> \o tb_next

\* The loop `for head_tb in reversed(head_tbs)` of concat_tb, at index i.
RECURSIVE concat_loop(_, _, _)
concat_loop(head_tbs, i, current_head) ==
    IF i = 0 THEN current_head
    ELSE concat_loop(head_tbs, i - 1, copy_tb(head_tbs[i], current_head))

\* concat_tb with head and tail taken for each other.
concat_tb_Swapped(head, tail) == concat_loop(tail, Len(tail), head)

concat_tb(head, tail) == concat_loop(head, Len(head), tail)

----------------------------------------------------------------------------
(* The handler: user code, called with one leaf. It returns the leaf itself,
   None, or a new exception; the new exception may keep the old one as its
   __cause__ (raise ... from exc, which also sets __suppress_context__) or as
   its __context__. *)

Outcomes == {"same", "none", "new"}
Links == {"plain", "cause", "context"}

CallHandler(h, c, e) ==
    LET logged == [c EXCEPT !.calls = Append(@, e)]
    IN  CASE h.out[e] = "same" -> [logged EXCEPT !.res = e]
          [] h.out[e] = "none" -> [logged EXCEPT !.res = None]
          [] OTHER ->
               LET H2 == NewObject(c.heap, "Leaf", <<>>,
                                   IF h.link = "cause" THEN e ELSE None,
                                   IF h.link = "context" THEN e ELSE None,
                                   h.link = "cause")
               IN  [logged EXCEPT !.heap = H2, !.res = Len(H2.kind)]

----------------------------------------------------------------------------
(* _filter_impl *)

\* filter_tree(exc, preserved). c carries the heap, the preserved set and the
\* log of handler calls; the result adds res, the value returned.
RECURSIVE filter_tree(_, _, _)
RECURSIVE filter_children(_, _, _, _, _, _)

\* filter_children collecting the new children in front.
filter_children_Prepend(h, c, e, i, new_exceptions, changed) ==
    IF i > Len(c.heap.exceptions[e])
    THEN [c |-> c, new_exceptions |-> new_exceptions, changed |-> changed]
    ELSE LET child_exc == c.heap.exceptions[e][i]
             r == filter_tree(h, c, child_exc)
             new_child_exc == r.res
         IN  filter_children(h, r, e, i + 1,
                 IF new_child_exc # None
                 THEN <<new_child_exc>> \o new_exceptions
                 ELSE new_exceptions,
                 changed \/ new_child_exc # child_exc)

\* The loop `for child_exc in exc.exceptions` of filter_tree, at index i.
filter_children(h, c, e, i, new_exceptions, changed) ==
    IF i > Len(c.heap.exceptions[e])
    THEN [c |-> c, new_exceptions |-> new_exceptions, changed |-> changed]
    ELSE LET child_exc == c.heap.exceptions[e][i]
             r == filter_tree(h, c, child_exc)
             new_child_exc == r.res
         IN  filter_children(h, r, e, i + 1,
                 IF new_child_exc # None
                 THEN Append(new_exceptions, new_child_exc)
                 ELSE new_exceptions,
                 changed \/ new_child_exc # child_exc)

\* filter_tree building a new MultiError even when no child changed.
filter_tree_Rebuild(h, c, e) ==
    IF IsMultiError(c.heap, e)
    THEN LET l == filter_children(h, c, e, 1, <<>>, FALSE)
         IN  IF l.new_exceptions = <<>>
             THEN [l.c EXCEPT !.res = None]
             ELSE LET m == MultiErrorNew(l.c.heap, l.new_exceptions)
                  IN  [l.c EXCEPT !.heap = m.heap, !.res = m.res]
    ELSE CallHandler(h, c, e)

filter_tree(h, c, e) ==
    IF IsMultiError(c.heap, e)
    THEN LET l == filter_children(h, c, e, 1, <<>>, FALSE)
         IN  IF l.new_exceptions = <<>>
             THEN [l.c EXCEPT !.res = None]
             ELSE IF l.changed
             THEN LET m == MultiErrorNew(l.c.heap, l.new_exceptions)
                  IN  [l.c EXCEPT !.heap = m.heap, !.res = m.res]
             ELSE [l.c EXCEPT !.preserved = @ \cup {e}, !.res = e]
    ELSE CallHandler(h, c, e)

\* push_tb_down(tb, exc, preserved): the heap after the call.
RECURSIVE push_tb_down(_, _, _, _)
RECURSIVE push_children(_, _, _, _, _)

\* The loop `for child_exc in exc.exceptions` of push_tb_down, at index i.
push_children(H, P, new_tb, e, i) ==
    IF i > Len(H.exceptions[e]) THEN H
    ELSE push_children(push_tb_down(H, P, new_tb, H.exceptions[e][i]),
                       P, new_tb, e, i + 1)

\* push_tb_down without the `if exc in preserved: return`.
push_tb_down_All(H, P, tb, e) ==
    LET new_tb == concat_tb(tb, H.tb[e])
    IN  IF IsMultiError(H, e)
        THEN [push_children(H, P, new_tb, e, 1) EXCEPT !.tb[e] = <<>>]
        ELSE [H EXCEPT !.tb[e] = new_tb]

push_tb_down(H, P, tb, e) ==
    IF e \in P THEN H
    ELSE LET new_tb == concat_tb(tb, H.tb[e])
         IN  IF IsMultiError(H, e)
             THEN [push_children(H, P, new_tb, e, 1) EXCEPT !.tb[e] = <<>>]
             ELSE [H EXCEPT !.tb[e] = new_tb]

\* _filter_impl(handler, root_exc) = MultiError.filter(handler, root_exc)
filter_impl(H, h, root_exc) ==
    LET c0 == [heap |-> H, preserved |-> {}, calls |-> <<>>, res |-> None]
        r  == filter_tree(h, c0, root_exc)
    IN  [r EXCEPT !.heap = push_tb_down(r.heap, r.preserved, <<>>, root_exc)]

----------------------------------------------------------------------------
(* Error trees *)

\* The nodes of the tree below (and including) r.
RECURSIVE Nodes(_, _)
Nodes(H, r) == {r} \cup UNION {Nodes(H, H.exceptions[r][i]) :
                                i \in 1..Len(H.exceptions[r])}

\* The leaves below r, left to right.
RECURSIVE LeafSeq(_, _)
RECURSIVE LeafSeqFrom(_, _, _)
LeafSeqFrom(H, r, i) ==
    IF i > Len(H.exceptions[r]) THEN <<>>
    ELSE LeafSeq(H, H.exceptions[r][i]) \o LeafSeqFrom(H, r, i + 1)
LeafSeq(H, r) == IF IsMultiError(H, r) THEN LeafSeqFrom(H, r, 1) ELSE <<r>>

Leaves(H, r) == {n \in Nodes(H, r) : ~IsMultiError(H, n)}
Groups(H, r) == {n \in Nodes(H, r) : IsMultiError(H, n)}

\* The parent functions of the ordered trees with nodes 1..n, root 1, numbered
\* breadth first, in which every MultiError has at least two children: the
\* trees that joining two or more errors builds. (MultiError.__new__ returns
\* no MultiError with one child; the childless one it returns for an empty
\* sequence is the subject of New and is not among these trees.)
ParentFns(n) ==
    {par \in [2..n -> 1..n] :
        /\ \A i \in 2..n : par[i] < i
        /\ \A i \in 2..n : i < n => par[i] <= par[i + 1]
        /\ \A p \in 1..n :
              Cardinality({i \in 2..n : par[i] = p}) # 1}

RECURSIVE ChildrenFrom(_, _, _, _)
ChildrenFrom(par, n, p, i) ==
    IF i > n THEN <<>>
    ELSE (IF par[i] = p THEN <<i>> ELSE <<>>) \o ChildrenFrom(par, n, p, i + 1)

\* The heap holding the tree of par: node i has the traceback <<i>>, but for
\* node e (if any), which has none; object n + 1 is an exception outside the
\* tree, and node l (if any) was raised while it was being handled.
TreeHeap(n, par, e, l) ==
    LET ch(p) == IF p > n THEN <<>> ELSE ChildrenFrom(par, n, p, 2)
    IN  [kind      |-> [i \in 1..n + 1 |->
                          IF ch(i) # <<>> THEN "MultiError" ELSE "Leaf"],
         exceptions |-> [i \in 1..n + 1 |-> ch(i)],
         tb        |-> [i \in 1..n + 1 |-> IF i = e \/ i > n THEN <<>> ELSE <<i>>],
         cause     |-> [i \in 1..n + 1 |-> None],
         context   |-> [i \in 1..n + 1 |-> IF i = l THEN n + 1 ELSE None],
         suppress  |-> [i \in 1..n + 1 |-> FALSE]]

Handlers(H, r) == [out : [Leaves(H, r) -> Outcomes], link : Links]

----------------------------------------------------------------------------
(* The operations *)

Init ==
    /\ \E n \in 1..MaxNodes : \E par \in ParentFns(n) :
         \E e \in 0..n : \E l \in {0, n} :
            heap = TreeHeap(n, par, e, l)
    /\ root = 1
    /\ pc = "start"
    /\ op = "none"
    /\ handler = None
    /\ orig = heap
    /\ exc = None
    /\ arg = <<>>
    /\ ret = None
    /\ exit = "none"
    /\ preserved = {}
    /\ calls = <<>>
    /\ propagating = None
    /\ chain = TRUE
    /\ seen = {}
    /\ stack = <<>>
    /\ chunks = <<>>
    /\ entered = [o \in 1..Len(heap.kind) |-> 0]

\* MultiError.filter(handler, root_exc)
Filter(h) ==
    /\ pc = "start"
    /\ LET r == filter_impl(heap, h, root)
       IN  /\ heap' = r.heap
           /\ ret' = r.res
           /\ preserved' = r.preserved
           /\ calls' = r.calls
    /\ op' = "filter"
    /\ handler' = h
    /\ orig' = heap
    /\ pc' = "done"
    /\ UNCHANGED <<root, exc, arg, exit, propagating, fmtvars>>

\* `raise e` in __exit__, which runs while handled is being handled: the
\* interpreter makes handled the __context__ of e, and the frame of __exit__
\* becomes the outermost entry of e's traceback.
RaiseInExit(H, e, handled) ==
    [H EXCEPT !.context[e] = handled, !.tb[e] = <<ExitFrame>> \o @]

\* HideContextAndRaise setting __suppress_context__ whatever the error has.
HideContextAndRaise_Always(H, filtered_exc, e) ==
    RaiseInExit([H EXCEPT !.suppress[filtered_exc] = TRUE], filtered_exc, e)

\* The lines of __exit__ after `if filtered_exc is None`: hide the context the
\* raise is about to set, then raise.
HideContextAndRaise(H, filtered_exc, e) ==
    LET H2 == IF H.cause[filtered_exc] = None /\ H.context[filtered_exc] = None
              THEN [H EXCEPT !.suppress[filtered_exc] = TRUE]
              ELSE H
    IN  RaiseInExit(H2, filtered_exc, e)

\* ExitBranch without the `if filtered_exc is exc` test.
ExitBranch_NoIdentityTest(H, filtered_exc, e) ==
    IF filtered_exc = None
    THEN [heap |-> H, exit |-> "return True", propagating |-> None]
    ELSE [heap |-> HideContextAndRaise(H, filtered_exc, e),
          exit |-> "raise", propagating |-> filtered_exc]

\* What __exit__ does with filtered_exc: the heap, how it ends, and the error
\* that propagates out of the with statement.
ExitBranch(H, filtered_exc, e) ==
    IF filtered_exc = e
    THEN [heap |-> H, exit |-> "return False", propagating |-> e]
    ELSE IF filtered_exc = None
    THEN [heap |-> H, exit |-> "return True", propagating |-> None]
    ELSE [heap |-> HideContextAndRaise(H, filtered_exc, e),
          exit |-> "raise", propagating |-> filtered_exc]

\* MultiErrorCatch.__exit__(etype, exc, tb) with exc the tree raised in the
\* with block.
ExitWithError(h) ==
    /\ pc = "start"
    /\ LET r == filter_impl(heap, h, root)
           b == ExitBranch(r.heap, r.res, root)
       IN  /\ heap' = b.heap
           /\ exit' = b.exit
           /\ propagating' = b.propagating
           /\ ret' = r.res
           /\ preserved' = r.preserved
           /\ calls' = r.calls
    /\ op' = "exit"
    /\ exc' = root
    /\ handler' = h
    /\ orig' = heap
    /\ pc' = "done"
    /\ UNCHANGED <<root, arg, fmtvars>>

\* MultiErrorCatch.__exit__(None, None, None): the with block ended normally.
ExitNormally(h) ==
    /\ pc = "start"
    /\ op' = "exit"
    /\ exc' = None
    /\ exit' = "return None"
    /\ handler' = h
    /\ orig' = heap
    /\ pc' = "done"
    /\ UNCHANGED <<heap, root, arg, ret, preserved, calls, propagating, fmtvars>>

\* The sequences of at most two distinct existing objects.
NewArgs(H) ==
    LET Objs == 1..Len(H.kind)
    IN  {<<>>} \cup {<<a>> : a \in Objs}
               \cup {s \in {<<a, b>> : a \in Objs, b \in Objs} : s[1] # s[2]}

\* MultiError(exceptions)
New(exceptions) ==
    /\ pc = "start"
    /\ LET m == MultiErrorNew(heap, exceptions)
       IN  /\ heap' = m.heap
           /\ ret' = m.res
    /\ op' = "new"
    /\ arg' = exceptions
    /\ orig' = heap
    /\ pc' = "done"
    /\ UNCHANGED <<root, handler, exc, exit, preserved, calls, propagating,
                   fmtvars>>

Next ==
    \/ \E h \in Handlers(heap, root) : Filter(h)
    \/ \E h \in Handlers(heap, root) : ExitWithError(h)
    \/ \E h \in Handlers(heap, root) : ExitNormally(h)
    \/ \E exceptions \in NewArgs(heap) : New(exceptions)

Spec == Init /\ [][Next]_vars

----------------------------------------------------------------------------
(* format_exception_multi *)

\* The chunks: the one-line placeholder, the output of
\* traceback.format_exception for one exception, the two banners and the
\* heading of an embedded exception; indent counts the textwrap.indent calls
\* the chunk goes through on its way out.
Placeholder(value, indent) ==
    [text |-> "previously printed", of |-> value, indent |-> indent]
OwnChunk(value, indent) ==
    [text |-> "exception", of |-> value, indent |-> indent]
CauseBanner(indent) ==
    [text |-> "direct cause", of |-> None, indent |-> indent]
ContextBanner(indent) ==
    [text |-> "during handling", of |-> None, indent |-> indent]
Heading(i, indent) ==
    [text |-> "embedded", of |-> i, indent |-> indent]

\* A call of _format_exception_multi: its value and chain arguments, where it
\* stands, and the index of the next child.
Call(value, ch, indent) ==
    [value |-> value, chain |-> ch, at |-> "enter", i |-> 1, indent |-> indent]

Top == stack[Len(stack)]
SetTop(f) == [stack EXCEPT ![Len(stack)] = f]
Pop == SubSeq(stack, 1, Len(stack) - 1)

\* The seen test never succeeding.
AlreadySeen_Never(value) == FALSE

\* `id(value) in seen`
AlreadySeen(value) == value \in seen

\* The exception rendered before value: its __cause__, else its __context__
\* unless suppressed, else none.
ChainedFrom(H, value) ==
    IF H.cause[value] # None THEN H.cause[value]
    ELSE IF H.context[value] # None /\ ~H.suppress[value] THEN H.context[value]
    ELSE None

\* format_exception_multi(etype, value, tb, chain=c)
FormatCall(c) ==
    /\ pc = "start"
    /\ chain' = c
    /\ seen' = {}
    /\ stack' = <<Call(root, c, 0)>>
    /\ pc' = "format"
    /\ UNCHANGED <<heap, root, opvars, chunks, entered>>

\* Entry of _format_exception_multi: the seen test and the chained call.
FormatEnter ==
    /\ pc = "format" /\ stack # <<>> /\ Top.at = "enter"
    /\ entered' = [entered EXCEPT ![Top.value] = @ + 1]
    /\ IF AlreadySeen(Top.value)
       THEN /\ chunks' = Append(chunks, Placeholder(Top.value, Top.indent))
            /\ stack' = Pop
            /\ seen' = seen
       ELSE /\ seen' = seen \cup {Top.value}
            /\ chunks' = chunks
            /\ LET v == IF Top.chain THEN ChainedFrom(heap, Top.value) ELSE None
               IN  IF v = None
                   THEN stack' = SetTop([Top EXCEPT !.at = "own"])
                   ELSE stack' = Append(SetTop([Top EXCEPT !.at = "chained"]),
                                        Call(v, TRUE, Top.indent))
    /\ UNCHANGED <<heap, root, pc, opvars, chain>>

\* Back from the chained call: the banner.
FormatBanner ==
    /\ pc = "format" /\ stack # <<>> /\ Top.at = "chained"
    /\ chunks' = Append(chunks,
                        IF heap.cause[Top.value] # None
                        THEN CauseBanner(Top.indent)
                        ELSE ContextBanner(Top.indent))
    /\ stack' = SetTop([Top EXCEPT !.at = "own"])
    /\ UNCHANGED <<heap, root, pc, opvars, chain, seen, entered>>

\* chunks += traceback.format_exception(etype, value, tb, chain=False), and
\* the return when value is no MultiError.
FormatOwn ==
    /\ pc = "format" /\ stack # <<>> /\ Top.at = "own"
    /\ chunks' = Append(chunks, OwnChunk(Top.value, Top.indent))
    /\ stack' = IF IsMultiError(heap, Top.value)
                THEN SetTop([Top EXCEPT !.at = "children"])
                ELSE Pop
    /\ UNCHANGED <<heap, root, pc, opvars, chain, seen, entered>>

\* One turn of `for i, exc in enumerate(value.exceptions)`.
FormatChild ==
    /\ pc = "format" /\ stack # <<>> /\ Top.at = "children"
    /\ Top.i <= Len(heap.exceptions[Top.value])
    /\ chunks' = Append(chunks, Heading(Top.i, Top.indent))
    /\ stack' = Append(SetTop([Top EXCEPT !.i = @ + 1]),
                       Call(heap.exceptions[Top.value][Top.i], Top.chain,
                            Top.indent + 1))
    /\ UNCHANGED <<heap, root, pc, opvars, chain, seen, entered>>

\* `return chunks` after the children.
FormatReturn ==
    /\ pc = "format" /\ stack # <<>> /\ Top.at = "children"
    /\ Top.i > Len(heap.exceptions[Top.value])
    /\ stack' = Pop
    /\ UNCHANGED <<heap, root, pc, opvars, chain, seen, chunks, entered>>

\* format_exception_multi returns.
FormatDone ==
    /\ pc = "format" /\ stack = <<>>
    /\ pc' = "done"
    /\ UNCHANGED <<heap, root, opvars, fmtvars>>

\* The heap H with __cause__ / __context__ of a referring to b.
Linked(H, a, k, b) ==
    CASE k = "cause"      -> [H EXCEPT !.cause[a] = b, !.suppress[a] = TRUE]
      [] k = "context"    -> [H EXCEPT !.context[a] = b]
      [] k = "suppressed" -> [H EXCEPT !.context[a] = b, !.suppress[a] = TRUE]
      [] OTHER            -> [H EXCEPT !.cause[a] = b, !.context[a] = b,
                                       !.suppress[a] = TRUE]

LinkKinds == {"cause", "context", "suppressed", "both"}

\* Error trees whose nodes refer to each other: none, a -> b, or a -> b -> c,
\* where a, b and c are any nodes of the tree (a = b and c = a included).
InitFormat ==
    /\ \E n \in 1..MaxFormatNodes : \E par \in ParentFns(n) :
         LET H == TreeHeap(n, par, 0, 0)
         IN  \/ heap = H
             \/ \E a, b \in 1..n : \E k \in LinkKinds :
                  LET H1 == Linked(H, a, k, b)
                  IN  \/ heap = H1
                      \/ /\ a # b
                         /\ \E c \in 1..n : \E k2 \in {"cause", "context"} :
                              heap = Linked(H1, b, k2, c)
    /\ root = 1
    /\ pc = "start"
    /\ op = "none"
    /\ handler = None
    /\ orig = heap
    /\ exc = None
    /\ arg = <<>>
    /\ ret = None
    /\ exit = "none"
    /\ preserved = {}
    /\ calls = <<>>
    /\ propagating = None
    /\ chain = TRUE
    /\ seen = {}
    /\ stack = <<>>
    /\ chunks = <<>>
    /\ entered = [o \in 1..Len(heap.kind) |-> 0]

NextFormat ==
    \/ \E c \in BOOLEAN : FormatCall(c)
    \/ FormatEnter
    \/ FormatBanner
    \/ FormatOwn
    \/ FormatChild
    \/ FormatReturn
    \/ FormatDone

\* The formatter is one synchronous call: once called it runs on.
SpecFormat == InitFormat /\ [][NextFormat]_vars /\ WF_vars(NextFormat)

----------------------------------------------------------------------------
(* Vocabulary of the properties *)

FilterDone == pc = "done" /\ op = "filter"
ExitDone == pc = "done" /\ op = "exit"
NewDone == pc = "done" /\ op = "new"

\* The MultiError of the tree below r that has x among its children.
ParentIn(H, r, x) ==
    CHOOSE g \in Nodes(H, r) : x \in Range(H.exceptions[g])

\* The logical traceback of x in the tree below r: the tracebacks met on the
\* path from r to x, concatenated.
RECURSIVE PathTrace(_, _, _)
PathTrace(H, r, x) ==
    IF x = r THEN H.tb[x]
    ELSE PathTrace(H, r, ParentIn(H, r, x)) \o H.tb[x]

\* The MultiErrors on the path from r to x, x excluded.
RECURSIVE Ancestors(_, _, _)
Ancestors(H, r, x) ==
    IF x = r THEN {}
    ELSE LET p == ParentIn(H, r, x) IN {p} \cup Ancestors(H, r, p)

OrigLeaves == Leaves(orig, root)
OrigGroups == Groups(orig, root)
IsNewObject(o) == o > Len(orig.kind)
Kept(leaf) == handler.out[leaf] = "same"
Dropped(leaf) == handler.out[leaf] = "none"
BelowPreserved(x) == Ancestors(orig, root, x) \cap preserved # {}

----------------------------------------------------------------------------
(* C1 *)

\* C1 (as claimed): after MultiError.filter returns, every leaf of the
\* original tree has as its own traceback the tracebacks of all its ancestors,
\* root first, followed by its own original traceback.
C1_EveryLeafHasFullTrace ==
    FilterDone =>
        \A leaf \in OrigLeaves : heap.tb[leaf] = PathTrace(orig, root, leaf)

\* C1 (amended): that holds of every leaf that is not below a preserved
\* MultiError; a leaf below a preserved MultiError keeps its own traceback.
C1_LeafTraceUnlessPreserved ==
    FilterDone =>
        \A leaf \in OrigLeaves :
            IF BelowPreserved(leaf)
            THEN heap.tb[leaf] = orig.tb[leaf]
            ELSE heap.tb[leaf] = PathTrace(orig, root, leaf)

\* A changed root with frames of its own, above a preserved MultiError and a
\* dropped leaf that received the root's frames.
C1_Witness ==
    /\ FilterDone
    /\ orig.tb[root] # <<>>
    /\ \E leaf \in OrigLeaves :
          /\ BelowPreserved(leaf)
          /\ orig.tb[leaf] # <<>>
    /\ \E leaf \in OrigLeaves :
          /\ ~BelowPreserved(leaf)
          /\ Dropped(leaf)
          /\ orig.tb[leaf] # <<>>
          /\ heap.tb[leaf] = orig.tb[root] \o orig.tb[leaf]

----------------------------------------------------------------------------
(* C2 *)

\* C2: for every leaf the handler returns unchanged, the logical traceback in
\* the filtered tree equals the logical traceback in the original tree.
C2_LogicalTracePreserved ==
    FilterDone =>
        \A leaf \in OrigLeaves :
            Kept(leaf) => PathTrace(heap, ret, leaf) = PathTrace(orig, root, leaf)

----------------------------------------------------------------------------
(* C3 *)

IdentityHandler == \A leaf \in OrigLeaves : Kept(leaf)

\* C3: filter with a handler that returns every leaf returns the root object.
C3_IdentityRoundTrip == (FilterDone /\ IdentityHandler) => ret = root

C3_Witness ==
    /\ FilterDone
    /\ IdentityHandler
    /\ Cardinality(OrigGroups) >= 2
    /\ ret = root

----------------------------------------------------------------------------
(* C4 *)

Survivors == {leaf \in OrigLeaves : ~Dropped(leaf)}

\* C4: the filtered tree holds no MultiError with fewer than two children, and
\* when one leaf survives the result is the surviving error itself.
C4_Simplified ==
    FilterDone =>
        /\ ret # None =>
              \A g \in Groups(heap, ret) : Len(heap.exceptions[g]) >= 2
        /\ \A leaf \in OrigLeaves :
              Survivors = {leaf} =>
                  /\ ret # None
                  /\ ~IsMultiError(heap, ret)
                  /\ IF Kept(leaf) THEN ret = leaf ELSE IsNewObject(ret)

\* make([V, make([K, V2])]) with every V dropped: K alone.
C4_Witness ==
    /\ FilterDone
    /\ \E leaf \in OrigLeaves :
          /\ Survivors = {leaf}
          /\ Kept(leaf)
          /\ Cardinality(Ancestors(orig, root, leaf)) = 2
          /\ ret = leaf

----------------------------------------------------------------------------
(* C5 *)

\* C5: constructing a MultiError from an empty sequence fails with an error
\* and returns nothing.
C5_EmptyConstructionFails ==
    (NewDone /\ arg = <<>>) => (propagating # None /\ ret = None)

----------------------------------------------------------------------------
(* C6 *)

\* C6: after __exit__ the error that propagates is E itself when filter
\* returned E, none when filter returned None and the filtered error
\* otherwise; on normal exit the handler is not called and nothing is raised.
C6_ExitOutcome ==
    ExitDone =>
        IF exc = None
        THEN calls = <<>> /\ propagating = None /\ heap = orig
        ELSE LET filtered == filter_impl(orig, handler, exc).res
             IN  /\ filtered = exc => propagating = exc /\ exit = "return False"
                 /\ filtered = None => propagating = None /\ exit = "return True"
                 /\ filtered \notin {exc, None} =>
                        propagating = filtered /\ exit = "raise"
                 /\ IdentityHandler => propagating = exc
                 /\ Survivors = {} => propagating = None

\* A handler that drops one leaf of several: the rest is raised in E's place.
C6_Witness ==
    /\ ExitDone
    /\ exc # None
    /\ propagating \notin {exc, None}
    /\ IsMultiError(heap, propagating)
    /\ IsNewObject(propagating)

----------------------------------------------------------------------------
(* C8 *)

\* The leaves of s the handler does not drop, in order.
RECURSIVE SurvivingSeq(_)
SurvivingSeq(s) ==
    IF s = <<>> THEN <<>>
    ELSE (IF Dropped(Head(s)) THEN <<>> ELSE <<Head(s)>>) \o SurvivingSeq(Tail(s))

\* o is what the handler returned for leaf.
IsOutputFor(o, leaf) ==
    IF Kept(leaf) THEN o = leaf
    ELSE /\ IsNewObject(o)
         /\ ~IsMultiError(heap, o)
         /\ handler.link = "cause" => heap.cause[o] = leaf
         /\ handler.link = "context" => heap.context[o] = leaf

\* C8: the leaves of the result, left to right, are the handler's outputs for
\* the leaves of the original tree, in the original order, the dropped ones
\* left out and nothing merged; the result is None exactly when none is left.
C8_LeafOrder ==
    FilterDone =>
        LET want == SurvivingSeq(LeafSeq(orig, root))
            got  == IF ret = None THEN <<>> ELSE LeafSeq(heap, ret)
        IN  /\ ret = None <=> want = <<>>
            /\ Len(got) = Len(want)
            /\ \A i \in 1..Len(got) : IsOutputFor(got[i], want[i])
            /\ \A i, j \in 1..Len(got) : i # j => got[i] # got[j]

\* A middle leaf dropped and a later one replaced, in a nested tree.
C8_Witness ==
    /\ FilterDone
    /\ ret # None
    /\ Cardinality(OrigGroups) >= 2
    /\ LET all == LeafSeq(orig, root)
           got == LeafSeq(heap, ret)
       IN  /\ Len(all) = 3 /\ Len(got) = 2
           /\ Kept(all[1]) /\ Dropped(all[2]) /\ ~Kept(all[3])
           /\ got[1] = all[1]
           /\ heap.cause[got[2]] = all[3]

----------------------------------------------------------------------------
(* C9 *)

\* The heap when MultiError.filter has returned inside __exit__.
HeapAfterFilter == filter_impl(orig, handler, exc).heap

\* C9: when __exit__ raises the filtered error, its __suppress_context__ is
\* set if it had neither __cause__ nor __context__ and is left alone if it had
\* one; when __exit__ returns, no __cause__, __context__ or
\* __suppress_context__ differs from what filter left.
C9_SuppressContext ==
    (ExitDone /\ exc # None) =>
        LET pre == HeapAfterFilter
        IN  /\ \A o \in 1..Len(orig.kind) :
                  /\ pre.cause[o] = orig.cause[o]
                  /\ pre.context[o] = orig.context[o]
                  /\ pre.suppress[o] = orig.suppress[o]
            /\ IF exit = "raise"
               THEN heap.suppress[propagating] =
                        IF pre.cause[propagating] = None
                           /\ pre.context[propagating] = None
                        THEN TRUE
                        ELSE pre.suppress[propagating]
               ELSE /\ heap.cause = pre.cause
                    /\ heap.context = pre.context
                    /\ heap.suppress = pre.suppress

\* The error raised had a __context__ and was not suppressed: still so.
C9_Witness ==
    /\ ExitDone
    /\ exit = "raise"
    /\ HeapAfterFilter.context[propagating] # None
    /\ HeapAfterFilter.cause[propagating] = None
    /\ ~heap.suppress[propagating]

----------------------------------------------------------------------------
(* C10 *)

\* C10: a MultiError is preserved exactly when the handler returns every leaf
\* below it; a preserved MultiError in the result keeps its children, its
\* traceback and the tracebacks below it; every other MultiError of the
\* original tree ends with no traceback and is not in the result.
C10_PreservedReuse ==
    FilterDone =>
        /\ \A g \in OrigGroups :
              g \in preserved <=> \A leaf \in Leaves(orig, g) : Kept(leaf)
        /\ preserved \subseteq OrigGroups
        /\ \A g \in preserved :
              (ret # None /\ g \in Nodes(heap, ret)) =>
                  /\ heap.exceptions[g] = orig.exceptions[g]
                  /\ \A x \in Nodes(orig, g) : heap.tb[x] = orig.tb[x]
        /\ \A g \in OrigGroups \ preserved :
              /\ heap.tb[g] = <<>>
              /\ ret # None => g \notin Nodes(heap, ret)

\* A preserved MultiError with frames, in the result, under a changed root
\* that had frames.
C10_Witness ==
    /\ FilterDone
    /\ ret # None
    /\ root \notin preserved
    /\ orig.tb[root] # <<>>
    /\ \E g \in preserved :
          /\ g \in Nodes(heap, ret)
          /\ heap.tb[g] # <<>>

----------------------------------------------------------------------------
(* C7 *)

Objects == 1..Len(heap.kind)

CountChunks(text, value) ==
    Cardinality({i \in 1..Len(chunks) :
                    chunks[i].text = text /\ chunks[i].of = value})

RECURSIVE Sum(_, _)
Sum(f, S) ==
    IF S = {} THEN 0
    ELSE LET x == CHOOSE y \in S : TRUE IN f[x] + Sum(f, S \ {x})

\* The calls a full rendering of value makes: one for the exception chained
\* from it, one per child.
CallsMadeBy(value) ==
    (IF chain /\ ChainedFrom(heap, value) # None THEN 1 ELSE 0)
        + Len(heap.exceptions[value])

\* No object is rendered in full twice; and when the formatter has returned,
\* every object it met was rendered in full once and as a placeholder on
\* every other encounter, and only the full renderings made further calls.
RenderedOnce ==
    /\ \A v \in Objects : CountChunks("exception", v) <= 1
    /\ pc = "done" =>
          /\ \A v \in Objects :
                entered[v] >= 1 =>
                    /\ CountChunks("exception", v) = 1
                    /\ CountChunks("previously printed", v) = entered[v] - 1
          /\ Sum(entered, Objects) =
                1 + Sum([v \in Objects |-> CallsMadeBy(v)],
                        {v \in Objects : entered[v] >= 1})

\* C7: format_exception_multi terminates, renders each object in full at most
\* once and emits the placeholder, without recursing, on every later
\* encounter.
C7_FormatTerminatesOnce == []RenderedOnce /\ <>(pc = "done")

\* A leaf whose __cause__ is a child elsewhere in the tree, on a cycle of
\* links: formatted, with a placeholder emitted.
C7_Witness ==
    /\ pc = "done"
    /\ chain
    /\ \E v, w \in Objects :
          /\ v # w
          /\ ~IsMultiError(heap, v)
          /\ heap.cause[v] = w
          /\ heap.context[w] = v
          /\ w \in Range(heap.exceptions[root])
          /\ entered[w] >= 2
          /\ CountChunks("previously printed", w) >= 1

====
